---- MODULE Spec2Model ----
(***************************************************************************)
(* A model of the base91 package (src/base91.go): the alphabet table built *)
(* by NewEncoding, the encoder (Encode / EncodeToString / EncodedLen) and  *)
(* the decoder (Decode / DecodeString / DecodedLen).                       *)
(*                                                                         *)
(* Bytes are the integers 0..255.  A Go slice or array is a sequence, so   *)
(* Go's index k is the sequence index k + 1.  The uint locals queue and    *)
(* numBits are modelled on the integers: no operation of the package       *)
(* reaches the width of a uint (BitQueueInvariant shows every value stays  *)
(* below 2^24); a negative numBits stands for a counter that wrapped       *)
(* around zero.                                                            *)
(***************************************************************************)
EXTENDS Integers, Sequences, FiniteSets, TLC

VARIABLES
    call,     \* which exported function the caller invoked
    def,      \* the argument of NewEncoding
    custom,   \* what NewEncoding produced
    enc,      \* the frame of Encode
    dec       \* the frame of Decode

vars == <<call, def, custom, enc, dec>>

----------------------------------------------------------------------------
(* Bounds of the model.                                                    *)

\* longest input of EncodeToString, in bytes
MaxLen == 6

\* longest input of DecodeString when it is called on arbitrary text
MaxSymLen == 8

\* byte values the inputs of EncodeToString are drawn from: 0 and 32 give
\* pair values with low 13 bits <= 88 (the 14-bit case, 32 setting bit 13),
\* 88 and 89 are the last value of the 14-bit case and the first of the
\* 13-bit case, 255 fills the queue with ones
ByteVals == {0, 32, 88, 89, 255}

\* bytes the arbitrary inputs of DecodeString are drawn from: 'A' (value 0)
\* and '"' (90), whose pairs are 0, 90, 8190 and 8280, and the space, which
\* is not in the standard alphabet
SymVals == {65, 34, 32}

\* bytes and positions used to vary the standard alphabet into the
\* definitions handed to NewEncoding: LF, CR, space (a new symbol), 'A' (a
\* duplicate) and 0xff
DefBytes == {10, 13, 32, 65, 255}
DefPositions == 1 .. 91

----------------------------------------------------------------------------
(* Machine arithmetic.                                                     *)

Pow2(k) == 2 ^ k

\* x << k on a uint; a shift count that wrapped past the width yields 0
Shl(x, k) == IF k >= 0 THEN x * Pow2(k) ELSE 0

\* x >> k
Shr(x, k) == x \div Pow2(k)

\* x & (2^k - 1)
Low(x, k) == x % Pow2(k)

\* a | b
RECURSIVE BitOr(_, _)
BitOr(a, b) ==
    IF a = 0 THEN b
    ELSE IF b = 0 THEN a
    ELSE (IF a % 2 = 1 \/ b % 2 = 1 THEN 1 ELSE 0) + 2 * BitOr(a \div 2, b \div 2)

\* byte(x)
ToByte(x) == x % 256

Bytes == 0 .. 255

----------------------------------------------------------------------------
(* The alphabet table.                                                     *)

encodeStd ==
  << 65, 66, 67, 68, 69, 70, 71, 72, 73, 74, 75, 76, 77,
     78, 79, 80, 81, 82, 83, 84, 85, 86, 87, 88, 89, 90,
     97, 98, 99, 100, 101, 102, 103, 104, 105, 106, 107, 108, 109,
     110, 111, 112, 113, 114, 115, 116, 117, 118, 119, 120, 121, 122,
     48, 49, 50, 51, 52, 53, 54, 55, 56, 57, 33, 35, 36,
     37, 38, 40, 41, 42, 43, 44, 46, 47, 58, 59, 60, 61,
     62, 63, 64, 91, 93, 94, 95, 96, 123, 124, 125, 126, 34 >>

\* the length of an alphabet, and of Encoding.encode
AlphabetLen == 91

\* the entry of decodeMap for a byte that is not in the alphabet
NotInAlphabet == 255

\* no Encoding: the caller holds none before NewEncoding returns, and
\* none after it panicked
NoEncoding == [encode |-> << >>, decodeMap |-> << >>]

\* the two loops that fill decodeMap: every entry becomes 0xff, then entry
\* encoder[i] becomes byte(i) for i = 0, 1, ... in the order of the
\* definition, so the last occurrence of a byte decides its entry
SetDecodeMap(encoder) ==
    [x \in Bytes |->
        LET at == {i \in 1 .. Len(encoder) : encoder[i] = x} IN
        IF at = {} THEN NotInAlphabet
        ELSE ToByte((CHOOSE i \in at : \A j \in at : j <= i) - 1)]

\* the checks NewEncoding makes before it builds anything: "" or the panic
NewEncodingCheck_OnlyLF(encoder) ==
    IF Len(encoder) # AlphabetLen
    THEN "encoding alphabet is not 91 bytes long"
    ELSE IF \E i \in 1 .. Len(encoder) : encoder[i] = 10
    THEN "encoding alphabet contains newline character"
    ELSE ""

NewEncodingCheck(encoder) ==
    IF Len(encoder) # AlphabetLen
    THEN "encoding alphabet is not 91 bytes long"
    ELSE IF \E i \in 1 .. Len(encoder) : encoder[i] = 10 \/ encoder[i] = 13
    THEN "encoding alphabet contains newline character"
    ELSE ""

\* NewEncoding: the panic message ("" when it returns) and the Encoding
NewEncoding(encoder) ==
    LET msg == NewEncodingCheck(encoder) IN
    IF msg # ""
    THEN [panic |-> msg, e |-> NoEncoding]
    ELSE [panic |-> "",
          e |-> [encode |-> [k \in 1 .. AlphabetLen |->
                                IF k <= Len(encoder) THEN encoder[k] ELSE 0],
                 decodeMap |-> SetDecodeMap(encoder)]]

\* line 82; a panic of NewEncoding here would end the program at start-up
StdResult == NewEncoding(encodeStd)

StdEncoding == StdResult.e

\* enc.decodeMap[b]
DecodeMapAt(e, b) == e.decodeMap[b]

----------------------------------------------------------------------------
(* The encoder.  A frame holds the locals of one call of Encode:           *)
(*   pc = "loop"  at the head of the for loop (line 97)                    *)
(*   pc = "test"  after the byte was merged (line 100)                     *)
(*   pc = "done"  returned; pc = "panic" an index was out of range         *)

\* EncodedLen: math.Ceil(float64(n) * 16.0 / 13.0).  The product is exact
\* and the quotient is either exact or at least 1/13 away from an integer,
\* so the float computation yields the integer ceiling.
EncodedLen_Floor(n) == (16 * n) \div 13

EncodedLen(n) == (16 * n + 12) \div 13

IdleEnc ==
    [src |-> << >>, dst |-> << >>, queue |-> 0, numBits |-> 0, n |-> 0,
     i |-> 0, v |-> 0, pc |-> "idle", fault |-> ""]

\* dst[n] = enc.encode[idx]; n++  (nothing more happens after a panic)
Put(e, f, idx) ==
    IF f.pc = "panic" THEN f
    ELSE IF idx >= AlphabetLen
    THEN [f EXCEPT !.pc = "panic", !.fault = "encode index"]
    ELSE IF f.n >= Len(f.dst)
    THEN [f EXCEPT !.pc = "panic", !.fault = "dst index"]
    ELSE [f EXCEPT !.dst[f.n + 1] = e.encode[idx + 1], !.n = f.n + 1]

\* lines 93-96, on the buffer EncodeToString allocates (line 134)
EncodeStart(src) ==
    [IdleEnc EXCEPT !.src = src,
                    !.dst = [k \in 1 .. EncodedLen(Len(src)) |-> 0],
                    !.pc = "loop"]

\* lines 98-99
EncMerge(f) ==
    [f EXCEPT !.queue = BitOr(f.queue, Shl(f.src[f.i + 1], f.numBits)),
              !.numBits = f.numBits + 8,
              !.pc = "test"]

\* lines 101-115, the body of the if: one digit pair leaves the queue
ExtractPair_Threshold90(e, f) ==
    LET v13 == Low(f.queue, 13)
        v == IF v13 > 90 THEN v13 ELSE Low(f.queue, 14)
        k == IF v13 > 90 THEN 13 ELSE 14
        g == [f EXCEPT !.v = v, !.queue = Shr(f.queue, k),
                       !.numBits = f.numBits - k]
    IN  Put(e, Put(e, g, v % 91), v \div 91)

ExtractPair(e, f) ==
    LET v13 == Low(f.queue, 13)
        v == IF v13 > 88 THEN v13 ELSE Low(f.queue, 14)
        k == IF v13 > 88 THEN 13 ELSE 14
        g == [f EXCEPT !.v = v, !.queue = Shr(f.queue, k),
                       !.numBits = f.numBits - k]
    IN  Put(e, Put(e, g, v % 91), v \div 91)

\* the i++ of the for loop (line 97)
EncAdvance(f) ==
    IF f.pc = "panic" THEN f ELSE [f EXCEPT !.pc = "loop", !.i = f.i + 1]

\* lines 100-116: the if, then the next iteration
EncExtract_Gt14(e, f) ==
    IF f.numBits > 14 THEN EncAdvance(ExtractPair(e, f)) ELSE EncAdvance(f)

EncExtract(e, f) ==
    IF f.numBits > 13 THEN EncAdvance(ExtractPair(e, f)) ELSE EncAdvance(f)

\* spec.md 4.2 step 3: digit pairs are extracted while count exceeds 13
RECURSIVE ExtractWhile(_, _)
ExtractWhile(e, f) ==
    IF f.pc # "panic" /\ f.numBits > 13
    THEN ExtractWhile(e, ExtractPair(e, f))
    ELSE f

EncExtractLoop(e, f) == EncAdvance(ExtractWhile(e, f))

\* lines 119-129
EncFlush_NoWideCheck(e, f) ==
    LET h == IF f.numBits > 0
             THEN LET g == Put(e, f, f.queue % 91) IN
                  IF f.numBits > 7 THEN Put(e, g, f.queue \div 91) ELSE g
             ELSE f
    IN  IF h.pc = "panic" THEN h ELSE [h EXCEPT !.pc = "done"]

EncFlush(e, f) ==
    LET h == IF f.numBits > 0
             THEN LET g == Put(e, f, f.queue % 91) IN
                  IF f.numBits > 7 \/ f.queue > 90
                  THEN Put(e, g, f.queue \div 91)
                  ELSE g
             ELSE f
    IN  IF h.pc = "panic" THEN h ELSE [h EXCEPT !.pc = "done"]

\* what EncodeToString returns (line 136): string(buf[:n])
Encoded(f) == SubSeq(f.dst, 1, f.n)

----------------------------------------------------------------------------
(* The decoder.  A frame holds the locals of one call of Decode:           *)
(*   pc = "loop"   at the head of the for loop (line 168)                  *)
(*   pc = "drain"  at the head of the body of the do-while (line 188)      *)
(*   pc = "done"   returned; pc = "panic" an index was out of range        *)
(* err is Nil or CorruptInputError(i).                                     *)

Nil == << >>

CorruptInputError(i) == << i >>

\* DecodedLen (line 227); the formula of line 219, rounded down, is the mutant
DecodedLen_Tight(n) == (13 * n) \div 16

DecodedLen(n) == n

IdleDec ==
    [src |-> << >>, dst |-> << >>, queue |-> 0, numBits |-> 0, v |-> -1,
     n |-> 0, i |-> 0, err |-> Nil, pc |-> "idle", fault |-> ""]

\* lines 163-167, on the buffer DecodeString allocates (line 210)
DecodeStart(src) ==
    [IdleDec EXCEPT !.src = src,
                    !.dst = [k \in 1 .. DecodedLen(Len(src)) |-> 0],
                    !.pc = "loop"]

\* dst[n] = b; n++
PutByte(f, b) ==
    IF f.n >= Len(f.dst)
    THEN [f EXCEPT !.pc = "panic", !.fault = "dst index"]
    ELSE [f EXCEPT !.dst[f.n + 1] = b, !.n = f.n + 1]

\* line 171
DecCorrupt_OneBased(f) ==
    [f EXCEPT !.pc = "done", !.err = CorruptInputError(f.i + 1)]

DecCorrupt(f) ==
    [f EXCEPT !.pc = "done", !.err = CorruptInputError(f.i)]

\* lines 181-185: the number of bits the digit pair v stands for
PairBits_Always13(v) == 13

PairBits(v) == IF Low(v, 13) > 88 THEN 13 ELSE 14

\* lines 169-185: one symbol of src
DecSymbol(e, f) ==
    LET d == DecodeMapAt(e, f.src[f.i + 1]) IN
    IF d = NotInAlphabet THEN DecCorrupt(f)
    ELSE IF f.v = -1 THEN [f EXCEPT !.v = d, !.i = f.i + 1]
    ELSE LET v == f.v + d * 91 IN
         [f EXCEPT !.v = v,
                   !.queue = BitOr(f.queue, Shl(v, f.numBits)),
                   !.numBits = f.numBits + PairBits(v),
                   !.pc = "drain"]

\* lines 188-192, the body of the do-while
DrainByte(f) ==
    LET g == PutByte(f, ToByte(f.queue)) IN
    IF g.pc = "panic" THEN g
    ELSE [g EXCEPT !.queue = Shr(f.queue, 8), !.numBits = f.numBits - 8]

\* lines 195-196 and the i++ of the for loop
DecAdvance(f) ==
    IF f.pc = "panic" THEN f
    ELSE [f EXCEPT !.v = -1, !.i = f.i + 1, !.pc = "loop"]

\* lines 187-196: one pass of the do-while, whose test follows its body
DecDrain_Gt8(f) ==
    LET g == DrainByte(f) IN
    IF g.pc # "panic" /\ g.numBits > 8 THEN g ELSE DecAdvance(g)

DecDrain(f) ==
    LET g == DrainByte(f) IN
    IF g.pc # "panic" /\ g.numBits > 7 THEN g ELSE DecAdvance(g)

\* lines 187-196: the do-while run to its end
RECURSIVE DecDrainAll(_)
DecDrainAll(f) ==
    LET g == DecDrain(f) IN
    IF g.pc = "drain" THEN DecDrainAll(g) ELSE g

\* spec.md 4.3 step 2: the queue is drained while count > 7
RECURSIVE DrainWhile(_)
DrainWhile(f) ==
    IF f.pc # "panic" /\ f.numBits > 7 THEN DrainWhile(DrainByte(f)) ELSE f

DecDrainLoop(f) == DecAdvance(DrainWhile(f))

\* lines 200-205
DecFlush(f) ==
    LET g == IF f.v # -1
             THEN PutByte(f, ToByte(BitOr(f.queue, Shl(f.v, f.numBits))))
             ELSE f
    IN  IF g.pc = "panic" THEN g ELSE [g EXCEPT !.pc = "done"]

\* the next step of a call of Decode
DecNext(e, f) ==
    IF f.pc = "drain" THEN DecDrain(f)
    ELSE IF f.i < Len(f.src) THEN DecSymbol(e, f)
    ELSE DecFlush(f)

\* Decode run from frame f until it returns or panics
RECURSIVE DecodeRun(_, _)
DecodeRun(e, f) ==
    IF f.pc \in {"done", "panic"} THEN f ELSE DecodeRun(e, DecNext(e, f))

\* what DecodeString returns (line 212): dbuf[:n]
Decoded(f) == SubSeq(f.dst, 1, f.n)

\* DecodeString (lines 209-213)
DecodeString(e, s) ==
    LET f == DecodeRun(e, DecodeStart(s)) IN
    [bytes |-> Decoded(f), err |-> f.err, pc |-> f.pc]

----------------------------------------------------------------------------
(* The callers' inputs.                                                    *)

SeqsUpTo(S, k) == UNION {[1 .. m -> S] : m \in 0 .. k}

Inputs == SeqsUpTo(ByteVals, MaxLen)

Texts == SeqsUpTo(SymVals, MaxSymLen)

Replace(s, p, c) == [s EXCEPT ![p] = c]

Definitions ==
    {encodeStd}
    \cup {Replace(encodeStd, p, c) : p \in DefPositions, c \in DefBytes}
    \cup {SubSeq(encodeStd, 1, k) : k \in {0, 1, AlphabetLen - 1}}
    \cup {encodeStd \o << c >> : c \in DefBytes}

NoResult == [panic |-> "", e |-> NoEncoding]

----------------------------------------------------------------------------
(* The state machine: one call of an exported function, step by step.      *)

Init ==
    /\ call = "none"
    /\ def = << >>
    /\ custom = NoResult
    /\ enc = IdleEnc
    /\ dec = IdleDec

\* NewEncoding(d), lines 58-79
CallNewEncoding ==
    /\ call = "none"
    /\ \E d \in Definitions :
         /\ def' = d
         /\ custom' = NewEncoding(d)
    /\ call' = "NewEncoding"
    /\ UNCHANGED <<enc, dec>>

\* StdEncoding.EncodeToString(src), lines 133-135
CallEncodeToString ==
    /\ call = "none"
    /\ \E src \in Inputs : enc' = EncodeStart(src)
    /\ call' = "EncodeToString"
    /\ UNCHANGED <<def, custom, dec>>

EncodeMerge ==
    /\ enc.pc = "loop"
    /\ enc.i < Len(enc.src)
    /\ enc' = EncMerge(enc)
    /\ UNCHANGED <<call, def, custom, dec>>

EncodeExtract ==
    /\ enc.pc = "test"
    /\ enc' = EncExtract(StdEncoding, enc)
    /\ UNCHANGED <<call, def, custom, dec>>

EncodeFlush ==
    /\ enc.pc = "loop"
    /\ enc.i = Len(enc.src)
    /\ enc' = EncFlush(StdEncoding, enc)
    /\ UNCHANGED <<call, def, custom, dec>>

\* StdEncoding.DecodeString(s) on arbitrary text, lines 209-211
CallDecodeString ==
    /\ call = "none"
    /\ \E s \in Texts : dec' = DecodeStart(s)
    /\ call' = "DecodeString"
    /\ UNCHANGED <<def, custom, enc>>

\* StdEncoding.DecodeString on the string EncodeToString returned
CallDecodeEncoded ==
    /\ call = "EncodeToString"
    /\ enc.pc = "done"
    /\ dec' = DecodeStart(Encoded(enc))
    /\ call' = "RoundTrip"
    /\ UNCHANGED <<def, custom, enc>>

DecodeSymbol ==
    /\ dec.pc = "loop"
    /\ dec.i < Len(dec.src)
    /\ dec' = DecSymbol(StdEncoding, dec)
    /\ UNCHANGED <<call, def, custom, enc>>

DecodeDrain ==
    /\ dec.pc = "drain"
    /\ dec' = DecDrain(dec)
    /\ UNCHANGED <<call, def, custom, enc>>

DecodeFlush ==
    /\ dec.pc = "loop"
    /\ dec.i = Len(dec.src)
    /\ dec' = DecFlush(dec)
    /\ UNCHANGED <<call, def, custom, enc>>

Next ==
    \/ CallNewEncoding
    \/ CallEncodeToString
    \/ EncodeMerge
    \/ EncodeExtract
    \/ EncodeFlush
    \/ CallDecodeString
    \/ CallDecodeEncoded
    \/ DecodeSymbol
    \/ DecodeDrain
    \/ DecodeFlush

Spec == Init /\ [][Next]_vars

----------------------------------------------------------------------------
(* Properties.                                                             *)

\* C1: round trip.  When DecodeString has returned on the string that
\* EncodeToString produced for the bytes b, its error is nil and its bytes
\* are exactly b; neither call panics on the way.
RoundTripHolds ==
    call = "RoundTrip" =>
        /\ dec.pc # "panic"
        /\ dec.pc = "done" => (dec.err = Nil /\ Decoded(dec) = enc.src)

\* a round trip has completed on an input whose flush left 7 bits worth
\* more than 90 in the queue, the case that needs a second flush symbol
RoundTripWitness ==
    /\ call = "RoundTrip"
    /\ dec.pc = "done"
    /\ enc.numBits = 7
    /\ enc.queue > 90
    /\ Decoded(dec) = enc.src

\* C2: encoded length bound.  Encode never writes outside a buffer of
\* EncodedLen(len(src)) bytes and the count it returns is at most that.
EncodedLenBound ==
    /\ enc.fault # "dst index"
    /\ enc.n <= EncodedLen(Len(enc.src))

\* Encode has returned having filled the whole buffer of a 5-byte input
EncodedLenWitness ==
    /\ enc.pc = "done"
    /\ Len(enc.src) = 5
    /\ enc.n = EncodedLen(Len(enc.src))

\* C3: decoded length bound.  For every text, valid or not, Decode never
\* writes outside a buffer of DecodedLen(len(src)) = len(src) bytes and
\* the count it returns is at most len(src).
DecodedLenBound ==
    /\ dec.fault # "dst index"
    /\ dec.n <= DecodedLen(Len(dec.src))
    /\ dec.n <= Len(dec.src)

\* a byte of src is outside the standard alphabet
Invalid(b) == DecodeMapAt(StdEncoding, b) = NotInAlphabet

\* Decode has returned on a text with an invalid symbol, having written
\* bytes, and on a one-symbol text, having filled the whole buffer
DecodedLenWitness ==
    /\ call = "DecodeString"
    /\ dec.pc = "done"
    /\ \/ dec.err # Nil /\ dec.n >= 2
       \/ Len(dec.src) = 1 /\ dec.n = 1

\* the only byte of src outside the alphabet is at (Go) position p
OnlyInvalidAt(src, p) ==
    /\ p + 1 \in 1 .. Len(src)
    /\ \A k \in 1 .. Len(src) : Invalid(src[k]) <=> k = p + 1

\* C4 as stated: Decode of a text whose only invalid byte is at position p
\* returns CorruptInputError(p) and exactly the bytes that decoding the
\* symbols at positions [0, p) alone yields, for odd p too.
CorruptionReturnsPrefixDecoding ==
    (call = "DecodeString" /\ dec.pc = "done") =>
        \A p \in 0 .. MaxSymLen :
            OnlyInvalidAt(dec.src, p) =>
                /\ dec.err = CorruptInputError(p)
                /\ Decoded(dec) = DecodeString(StdEncoding, SubSeq(dec.src, 1, p)).bytes

\* C4 amended: Decode of a text whose only invalid byte is at position p
\* returns CorruptInputError(p) and exactly the bytes that decoding the
\* complete symbol pairs before p, the symbols at positions [0, p - p mod 2),
\* yields: an unpaired symbol pending at p - 1 contributes no byte.
CorruptionReturnsPairsDecoding ==
    (call = "DecodeString" /\ dec.pc = "done") =>
        \A p \in 0 .. MaxSymLen :
            OnlyInvalidAt(dec.src, p) =>
                /\ dec.err = CorruptInputError(p)
                /\ LET r == DecodeString(StdEncoding, SubSeq(dec.src, 1, p - (p % 2)))
                   IN  r.err = Nil /\ Decoded(dec) = r.bytes

\* Decode has stopped at an invalid symbol at an odd position, a symbol
\* pending, after it decoded bytes from the pairs before
CorruptionWitness ==
    /\ call = "DecodeString"
    /\ dec.pc = "done"
    /\ \E p \in {3, 5} : OnlyInvalidAt(dec.src, p)
    /\ dec.v # -1
    /\ dec.n >= 1

\* the table invariant of an Encoding e
TableInvariant(e) ==
    /\ \A i \in 0 .. AlphabetLen - 1 : e.decodeMap[e.encode[i + 1]] = i
    /\ \A x \in Bytes :
         (\A i \in 1 .. AlphabetLen : e.encode[i] # x) => e.decodeMap[x] = NotInAlphabet

\* C5: every Encoding that NewEncoding returns, the standard one and every
\* custom one it accepts, satisfies decodeMap[encode[i]] = i for i in 0..90
\* and decodeMap[x] = 0xff for every byte x that is not a symbol.
AlphabetTableInvariant ==
    /\ TableInvariant(StdEncoding)
    /\ (call = "NewEncoding" /\ custom.panic = "") => TableInvariant(custom.e)

\* the definition d has a length other than 91 or holds CR or LF
Rejected(d) ==
    \/ Len(d) # 91
    \/ \E i \in 1 .. Len(d) : d[i] \in {10, 13}

\* the Encoding e is a fully populated table for the definition d
Populated(e, d) ==
    /\ e.encode = d
    /\ DOMAIN e.decodeMap = Bytes
    /\ \A x \in Bytes : e.decodeMap[x] \in (0 .. 90) \cup {NotInAlphabet}
    /\ \A i \in 1 .. 91 : e.decodeMap[d[i]] # NotInAlphabet

\* C6: construction validation.  NewEncoding panics, producing no table,
\* for every definition that is not 91 bytes long or holds CR or LF, and
\* returns a fully populated table for every other; the standard
\* definition is accepted.
ConstructionValidation ==
    /\ StdResult.panic = ""
    /\ call = "NewEncoding" =>
         IF Rejected(def)
         THEN custom.panic # "" /\ custom.e = NoEncoding
         ELSE custom.panic = "" /\ Populated(custom.e, def)

\* NewEncoding has panicked on a 91-byte definition that holds a CR
ConstructionWitness ==
    /\ call = "NewEncoding"
    /\ Len(def) = 91
    /\ \E i \in 1 .. 91 : def[i] = 13
    /\ \A i \in 1 .. 91 : def[i] # 10
    /\ custom.panic # ""

\* the bit queue of a frame: the counter in [0, 23], no bit at or above it
QueueOk(f) ==
    /\ f.numBits \in 0 .. 23
    /\ f.queue < Pow2(f.numBits)

\* C7: bit-queue invariant.  In every state of Encode and of Decode, for
\* any input, numBits is in [0, 23] and queue < 2^numBits.
BitQueueInvariant == QueueOk(enc) /\ QueueOk(dec)

\* the decoder has merged a 14-bit pair on top of 7 pending bits: 21 bits,
\* the most either queue holds
BitQueueWitness ==
    /\ call = "DecodeString"
    /\ dec.pc = "drain"
    /\ dec.numBits = 21
    /\ dec.queue >= Pow2(13)

\* C8: encoder extraction.  Whenever Encode reaches its test of numBits,
\* the single extraction of the code yields what the repeated extraction
\* of spec.md 4.2 step 3 yields, and at the head of the loop numBits <= 13.
ExtractOnceEquivalence ==
    /\ enc.pc = "test" => EncExtract(StdEncoding, enc) = EncExtractLoop(StdEncoding, enc)
    /\ enc.pc = "loop" => enc.numBits <= 13

\* the sixth byte filled the queue to 21 bits, the most it holds, and the
\* single extraction of 13 bits left 8
ExtractOnceWitness ==
    /\ enc.pc = "loop"
    /\ enc.i = 6
    /\ enc.numBits = 8
    /\ enc.n = 6

\* C9: decoder drain.  Whenever Decode is at the body of its do-while,
\* numBits > 7, the do-while yields what the while loop of spec.md 4.3
\* step 2 yields, and at the head of the for loop numBits <= 7.
DrainEquivalence ==
    /\ dec.pc = "drain" =>
         /\ dec.numBits > 7
         /\ DecDrainAll(dec) = DecDrainLoop(dec)
    /\ dec.pc = "loop" => dec.numBits <= 7

\* the do-while is entered with 13 bits, the fewest, and has left 5
DrainWitness ==
    /\ dec.pc = "loop"
    /\ dec.i = 2
    /\ dec.n = 1
    /\ dec.numBits = 5

\* C10: alphabet index safety.  Encode never indexes enc.encode out of
\* range: every pair value v has v / 91 <= 90, and the queue that the
\* final flush indexes with is at most 8191.
AlphabetIndexSafety ==
    /\ enc.fault # "encode index"
    /\ enc.v \div 91 <= 90
    /\ enc.pc = "loop" => enc.queue <= 8191

\* Encode has returned after a 14-bit pair of the largest value, 8280
AlphabetIndexWitness ==
    /\ enc.pc = "done"
    /\ enc.v = 8280

====
